---- MODULE Spec2Model ----
(***************************************************************************)
(* SC-Controller: the 'gyro' / 'gyroabs' actions (src/actions/gyro.c) and  *)
(* the Windows device monitor (src/daemon/device_monitor_win32.c).         *)
(*                                                                         *)
(* Numbers.  The C code computes in double.  The model keeps every double  *)
(* as an exact fraction with a fixed denominator:                          *)
(*   - an angle is an integer number of thousandths of the unit PI/2^15,   *)
(*     so that q / MAGIC radians is exactly q * Scale and 1.0 radian is    *)
(*     ONE_RADIAN (MAGIC, cut to three decimals);                          *)
(*   - a sensitivity is an integer number of 1/SensDen;                    *)
(*   - a component value is a numerator over ValDen.                       *)
(***************************************************************************)
EXTENDS Integers, Sequences, FiniteSets, TLC

VARIABLES act, dz, mflags, calls, last, hist, build, devcall

vars == <<act, dz, mflags, calls, last, hist, build, devcall>>

NULL == "NULL"

\* ------------------------------------------------------------------ bounds
MaxRc == 2
MaxFires == 3

\* --------------------------------------------------------------- constants
KW_GYRO == "gyro"
KW_GYROABS == "gyroabs"

ABS_X == 0
ABS_Y == 1
ABS_RX == 3
ABS_MAX == 63
ABS_CNT == ABS_MAX + 1
REL_X == 256
REL_Y == REL_X + 1
REL_MAX == REL_X + 15

STICK_PAD_MIN == -32768
STICK_PAD_MAX == 32767

Scale == 10 ^ 3
SensDen == 2
ValDen == Scale * SensDen
MOUSE_DIV == 100
ONE_RADIAN == 10430378
PI_ANGLE == (2 ^ 15) * Scale

CF_EUREL_GYROS == "CF_EUREL_GYROS"

Actions == {"a1", "a2"}
Deadzones == {"d1", "d2"}
Comps == 1 .. 3

\* ----------------------------------------------------------------- helpers
clamp(min, x, max) == IF x < min THEN min ELSE IF x > max THEN max ELSE x

\* Conversion of the fraction n/d (d > 0) to an integer type: toward zero.
Trunc(n, d) == IF n >= 0 THEN n \div d ELSE -((-n) \div d)

\* floor() of the fraction n/d (d > 0).
Floor(n, d) == n \div d

\* clamp_axis(axis, value) for a value n/d: the output range, as an AxisValue.
\* (The range's ends are integers, so clamping the converted value is the
\* conversion of the clamped one.)
clamp_axis(axis, n, d) == clamp(STICK_PAD_MIN, Trunc(n, d), STICK_PAD_MAX)

\* anglediff(a1, a2): the difference a2 - a1 wrapped to [-PI, PI).
anglediff(a1, a2) == ((a2 - a1 + PI_ANGLE) % (2 * PI_ANGLE)) - PI_ANGLE

\* The C expression  a || b  on doubles: 1.0 when either is nonzero, else 0.0.
LogicalOr(a, b) == IF a # 0 \/ b # 0 THEN ONE_RADIAN ELSE 0

\* scc_deadzone_apply: small excursions are suppressed.
DEADZONE_LOWER == 20000
scc_deadzone_apply(val) == IF val > -DEADZONE_LOWER /\ val < DEADZONE_LOWER THEN 0 ELSE val

\* -------------------------------------------------------------- input sets
\* Axis parameters: the first is required, the others default to ABS_CNT.
AxesConfigs ==
    { <<ABS_X, ABS_CNT, ABS_RX>>,
      <<REL_X, REL_Y, ABS_CNT>>,
      <<ABS_X, ABS_Y, ABS_RX>>,
      <<ABS_Y, ABS_CNT, ABS_CNT>> }

\* Sensitivity vectors handed to set_sensitivity (0.5, 1.0 and 2.0).
SensConfigs == { <<1, SensDen, 4>>, <<4, 4, 1>> }

\* Raw sample fields (GyroValue).
RawVals == {0, 100, -20000}

\* A GyroInput: gpitch/gyaw/groll feed 'gyro', q0..q3 feed 'gyroabs'.
GyroInputs ==
    { [gpitch |-> x, gyaw |-> y, groll |-> z, q0 |-> x, q1 |-> y, q2 |-> z, q3 |-> 0] :
        x \in RawVals, y \in {0, -20000}, z \in {0, 100} }

\* quat2euler: the Euler angles of a quaternion sample; the conversion is
\* not computed here, any angle triple of the sample range may result.
quat2euler(value) ==
    { <<x * Scale, y * Scale, z * Scale>> : x \in RawVals, y \in {0, -20000}, z \in {0, 100} }

\* The samples fed to 'gyroabs': with quaternion data the result of the
\* conversion is unconstrained, so one sample stands for all.
AbsInputs(flags) ==
    IF CF_EUREL_GYROS \in flags THEN GyroInputs
    ELSE { [gpitch |-> 0, gyaw |-> 0, groll |-> 0, q0 |-> 32767, q1 |-> 0, q2 |-> 0, q3 |-> 0] }

HapticDatas == { [enabled |-> TRUE], [enabled |-> FALSE] }
HAPTIC_ENABLED(hdata) == hdata.enabled
HAPTIC_DISABLE == [enabled |-> FALSE]

\* --------------------------------------------------------- reference counts
\* RC_ADD(x): NULL is skipped.
RC_ADD(dzs, d) == IF d = NULL THEN dzs ELSE [dzs EXCEPT ![d].rc = @ + 1]

\* RC_REL(x): NULL is skipped; the object is deallocated when its count
\* drops below one.
RC_REL(dzs, d) ==
    IF d = NULL THEN dzs
    ELSE [dzs EXCEPT ![d].rc = @ - 1, ![d].freed = @ \/ (dzs[d].rc - 1 < 1)]

\* ------------------------------------------------------------------- state
NoAction ==
    [alive |-> FALSE, rc |-> 0, type |-> NULL, flags |-> {}, handlers |-> {},
     axes |-> <<ABS_CNT, ABS_CNT, ABS_CNT>>, sensitivity |-> <<0, 0, 0>>,
     ir |-> <<0, 0, 0, 0>>, was_out_of_range |-> FALSE, deadzone |-> NULL,
     hdata |-> HAPTIC_DISABLE]

NoDeadzone == [rc |-> 0, freed |-> TRUE, ext |-> 0]

NoLast ==
    [op |-> "none", a |-> NULL, first |-> FALSE, haptic |-> FALSE, oor |-> FALSE,
     hadDeadzone |-> FALSE, pyr |-> <<0, 0, 0>>, comp |-> <<0, 0, 0>>,
     before |-> NoAction]

NoHist == [fires |-> 0, prevOut |-> "none", lastOut |-> "none", runFires |-> 0,
           hapticEvals |-> FALSE]

Call(op, comp, axis, x, y) == [op |-> op, comp |-> comp, axis |-> axis, x |-> x, y |-> y]

\* The capability flags gyro_constructor hands to scc_action_init.
ConstructorFlags(keyword) ==
    IF keyword = KW_GYRO
    THEN {"AF_ACTION", "AF_MOD_SENSITIVITY", "AF_MOD_SENS_Z"}
    ELSE {"AF_MOD_DEADZONE", "AF_ACTION", "AF_MOD_SENSITIVITY", "AF_MOD_SENS_Z"}

\* The handlers gyro_constructor installs.
ConstructorHandlers(keyword) ==
    { IF keyword = KW_GYRO THEN "gyro" ELSE "gyroabs",
      "describe", "set_sensitivity", "get_property", "set_haptic",
      "dealloc", "to_string" }

gyro_constructor(keyword, axes) ==
    [alive |-> TRUE, rc |-> 1,
     type |-> IF keyword = KW_GYRO THEN KW_GYRO ELSE KW_GYROABS,
     flags |-> ConstructorFlags(keyword),
     handlers |-> ConstructorHandlers(keyword),
     axes |-> axes,
     sensitivity |-> <<SensDen, SensDen, SensDen>>,
     ir |-> <<0, 0, 0, 0>>,
     was_out_of_range |-> FALSE,
     deadzone |-> NULL,
     hdata |-> HAPTIC_DISABLE]

\* ----------------------------------------------------------- device monitor
Backends == {"USE_DINPUT", "USE_HIDAPI", "USE_LIBUSB"}

\* Line 146-148: a build needs USE_LIBUSB or USE_HIDAPI.
Builds == { b \in SUBSET Backends : "USE_LIBUSB" \in b \/ "USE_HIDAPI" \in b }

Subsystems == {"HIDAPI", "USB", "DINPUT"}
IdVals == {1, 2}
NameVals == {"padA", "padB"}

\* Device records; a record's instance name and GUID string differ.
Devices ==
    { d \in [subsystem : Subsystems, vendor : IdVals, product : IdVals, idx : IdVals,
             name : NameVals, guid : NameVals] : d.name # d.guid }

FilterTypes ==
    {"SCCD_HOTPLUG_FILTER_VENDOR", "SCCD_HOTPLUG_FILTER_PRODUCT", "SCCD_HOTPLUG_FILTER_IDX",
     "SCCD_HOTPLUG_FILTER_NAME", "SCCD_HOTPLUG_FILTER_GUID", "OTHER"}

\* A HotplugFilter: the tag and the one member of the union it carries (the
\* other members hold no value: 0 and "").
Filter(type, num, name) ==
    [type |-> type,
     vendor |-> IF type = "SCCD_HOTPLUG_FILTER_VENDOR" THEN num ELSE 0,
     product |-> IF type = "SCCD_HOTPLUG_FILTER_PRODUCT" THEN num ELSE 0,
     idx |-> IF type = "SCCD_HOTPLUG_FILTER_IDX" THEN num ELSE 0,
     name |-> IF type \in {"SCCD_HOTPLUG_FILTER_NAME", "SCCD_HOTPLUG_FILTER_GUID"}
              THEN name ELSE ""]

Filters == { Filter(t, n, s) : t \in FilterTypes, n \in IdVals, s \in NameVals }

NoFilter == Filter("OTHER", 0, "")
NoDevice == [subsystem |-> NULL, vendor |-> 0, product |-> 0, idx |-> 0, name |-> "", guid |-> ""]

\* sccd_device_monitor_test_filter; clsid_ok is StringFromCLSID's success.
test_filter_NoSubsystemCheck(b, idev, filter, clsid_ok) ==
    CASE filter.type = "SCCD_HOTPLUG_FILTER_VENDOR" -> idev.vendor = filter.vendor
      [] filter.type = "SCCD_HOTPLUG_FILTER_PRODUCT" -> idev.product = filter.product
      [] filter.type = "SCCD_HOTPLUG_FILTER_IDX" -> idev.idx = filter.idx
      [] filter.type = "SCCD_HOTPLUG_FILTER_NAME" -> idev.name = filter.name
      [] filter.type = "SCCD_HOTPLUG_FILTER_GUID" -> clsid_ok /\ idev.guid = filter.name
      [] OTHER -> FALSE

sccd_device_monitor_test_filter(b, idev, filter, clsid_ok) ==
    CASE filter.type = "SCCD_HOTPLUG_FILTER_VENDOR" ->
            (idev.subsystem # "DINPUT") /\ (idev.vendor = filter.vendor)
      [] filter.type = "SCCD_HOTPLUG_FILTER_PRODUCT" ->
            (idev.subsystem # "DINPUT") /\ (idev.product = filter.product)
      [] filter.type = "SCCD_HOTPLUG_FILTER_IDX" ->
            idev.idx = filter.idx
      [] filter.type = "SCCD_HOTPLUG_FILTER_NAME" ->
            IF "USE_DINPUT" \in b /\ idev.subsystem = "DINPUT"
            THEN idev.name = filter.name
            ELSE FALSE
      [] filter.type = "SCCD_HOTPLUG_FILTER_GUID" ->
            IF "USE_DINPUT" \in b /\ idev.subsystem = "DINPUT"
            THEN (IF ~clsid_ok THEN FALSE ELSE idev.guid = filter.name)
            ELSE FALSE
      [] OTHER -> FALSE

\* input_device_open: the routine the record's open reaches.
input_device_open(b, idev) ==
    IF "USE_DINPUT" \in b THEN "sccd_input_dinput_open"
    ELSE IF "USE_HIDAPI" \in b /\ idev.subsystem = "HIDAPI" THEN "sccd_input_hidapi_open"
    ELSE IF "USE_LIBUSB" \in b /\ idev.subsystem = "USB" THEN "sccd_input_libusb_open"
    ELSE NULL

NoDevCall == [op |-> "none", dev |-> NoDevice, filter |-> NoFilter, result |-> NULL]

\* ------------------------------------------------------------ gyro (relative)
\* Line 95: the component is written when its axis is at most ABS_MAX.
GyroAxisWritten_NoGuard(axis) == TRUE
GyroAxisWritten(axis) == axis <= ABS_MAX

\* Line 96-97: v = pyr[i] * sensitivity[i] * -10.0, clamped, as an AxisValue.
GyroValueOf(raw, sens) ==
    Trunc(clamp(STICK_PAD_MIN * SensDen, raw * sens * (-10), STICK_PAD_MAX * SensDen), SensDen)

gyro(g, value) ==
    LET pyr == <<value.gpitch, value.gyaw, value.groll>>
        one(i) == IF GyroAxisWritten(g.axes[i])
                  THEN << Call("set_axis", i, g.axes[i], GyroValueOf(pyr[i], g.sensitivity[i]), 0) >>
                  ELSE << >>
    IN  one(1) \o one(2) \o one(3)

\* --------------------------------------------------------- gyroabs (absolute)
\* Lines 116-123: pitch/yaw/roll of the sample, by the Mapper's flag.
SamplePyr(value, flags) ==
    IF CF_EUREL_GYROS \in flags
    THEN { << value.q0 * Scale, value.q1 * Scale, value.q2 * Scale >> }
    ELSE quat2euler(value)

\* Line 126: g->ir[i] = g->ir[i] || pyr[i].
LatchRef(ir, pyr) == LogicalOr(ir, pyr)

\* Line 127: anglediff(ir, pyr) * sensitivity * MAGIC * 2, a numerator over ValDen.
Scaled(ir, pyr, sens) == anglediff(ir, pyr) * sens * 2

\* Lines 141-143: the effect fires when out of range and not so before.
HapticFire_NoEdge(out_of_range, was) == out_of_range
HapticFire(out_of_range, was) == out_of_range /\ ~was

\* Lines 141-148: was_out_of_range after a haptic-enabled evaluation.
WasAfter_Reset(out_of_range, was) == IF out_of_range THEN TRUE ELSE FALSE
WasAfter(out_of_range, was) ==
    IF out_of_range THEN (IF ~was THEN TRUE ELSE was) ELSE TRUE

\* Lines 125-153: the new reference, the three component values (numerators
\* over ValDen) and the saturation flag.
AbsCompute(g, pyr) ==
    LET ir == [i \in 1 .. 4 |-> IF i <= 3 THEN LatchRef(g.ir[i], pyr[i]) ELSE g.ir[i]]
        sc == [i \in Comps |-> Scaled(ir[i], pyr[i], g.sensitivity[i])]
        fl == [i \in Comps |-> Floor(sc[i], ValDen)]
        haptic == HAPTIC_ENABLED(g.hdata)
        oor == haptic /\ \E i \in Comps : fl[i] > STICK_PAD_MAX \/ fl[i] < STICK_PAD_MIN
        comp == [i \in Comps |->
                    IF haptic
                    THEN clamp(STICK_PAD_MIN, fl[i], STICK_PAD_MAX) * ValDen
                    ELSE clamp(STICK_PAD_MIN * ValDen, sc[i], STICK_PAD_MAX * ValDen)]
    IN  [ir |-> ir, comp |-> comp, haptic |-> haptic, oor |-> oor,
         fire |-> haptic /\ HapticFire(oor, g.was_out_of_range),
         was |-> IF haptic THEN WasAfter(oor, g.was_out_of_range)
                 ELSE g.was_out_of_range]

\* Lines 155-168: the write of component i.
AbsWrite(g, i, comp) ==
    LET axis == g.axes[i]
        sens == g.sensitivity[i]
    IN  IF axis = REL_X
        THEN Call("move_mouse", i, axis,
                  clamp_axis(axis, comp * sens, ValDen * SensDen * MOUSE_DIV), 0)
        ELSE IF axis = REL_Y
        THEN Call("move_mouse", i, axis, 0,
                  clamp_axis(axis, comp * sens, ValDen * SensDen * MOUSE_DIV))
        ELSE LET val == clamp_axis(axis, comp * sens, ValDen * SensDen)
             IN  Call("set_axis", i, axis,
                      IF g.deadzone # NULL THEN scc_deadzone_apply(val) ELSE val, 0)

gyroabs(g, r) ==
    (IF r.fire THEN << Call("haptic_effect", 0, ABS_CNT, 0, 0) >> ELSE << >>)
    \o << AbsWrite(g, 1, r.comp[1]), AbsWrite(g, 2, r.comp[2]), AbsWrite(g, 3, r.comp[3]) >>

\* History of the haptic-enabled evaluations of one action.
HistAfter(h, r) ==
    IF ~r.haptic THEN h
    ELSE [fires |-> h.fires + (IF r.fire THEN 1 ELSE 0),
          prevOut |-> h.lastOut,
          lastOut |-> IF r.oor THEN "out" ELSE "in",
          runFires |-> IF r.oor THEN h.runFires + (IF r.fire THEN 1 ELSE 0) ELSE 0,
          hapticEvals |-> TRUE]

\* ----------------------------------------------------------------- actions
Construct(a, keyword, axes) ==
    /\ ~act[a].alive
    /\ act' = [act EXCEPT ![a] = gyro_constructor(keyword, axes)]
    /\ hist' = [hist EXCEPT ![a] = NoHist]
    /\ calls' = << >>
    /\ last' = [NoLast EXCEPT !.op = "construct", !.a = a]
    /\ UNCHANGED <<dz, mflags, build, devcall>>

SetSensitivity(a, x, y, z) ==
    /\ act[a].alive
    /\ act' = [act EXCEPT ![a].sensitivity = <<x, y, z>>]
    /\ calls' = << >>
    /\ last' = [NoLast EXCEPT !.op = "set_sensitivity", !.a = a]
    /\ UNCHANGED <<dz, mflags, hist, build, devcall>>

SetHaptic(a, hdata) ==
    /\ act[a].alive
    /\ act' = [act EXCEPT ![a].hdata = hdata]
    /\ calls' = << >>
    /\ last' = [NoLast EXCEPT !.op = "set_haptic", !.a = a]
    /\ UNCHANGED <<dz, mflags, hist, build, devcall>>

Gyro(a, value) ==
    /\ act[a].alive
    /\ act[a].type = KW_GYRO
    /\ calls' = gyro(act[a], value)
    /\ last' = [NoLast EXCEPT !.op = "gyro", !.a = a, !.before = act[a],
                              !.hadDeadzone = act[a].deadzone # NULL]
    /\ UNCHANGED <<act, dz, mflags, hist, build, devcall>>

GyroAbs(a, value) ==
    /\ act[a].alive
    /\ act[a].type = KW_GYROABS
    /\ hist[a].fires < MaxFires
    /\ \E pyr \in SamplePyr(value, mflags) :
          LET g == act[a]
              r == AbsCompute(g, pyr)
          IN  /\ act' = [act EXCEPT ![a].ir = r.ir, ![a].was_out_of_range = r.was]
              /\ calls' = gyroabs(g, r)
              /\ hist' = [hist EXCEPT ![a] = HistAfter(hist[a], r)]
              /\ last' = [op |-> "gyroabs", a |-> a,
                          first |-> g.ir = <<0, 0, 0, 0>>,
                          haptic |-> r.haptic, oor |-> r.oor,
                          hadDeadzone |-> g.deadzone # NULL,
                          pyr |-> pyr, comp |-> r.comp, before |-> NoAction]
    /\ UNCHANGED <<dz, mflags, build, devcall>>

\* Lines 105-106: RC_ADD(deadzone); RC_REL(g->deadzone).
SwapDeadzone_RelFirst(dzs, old, new) == RC_ADD(RC_REL(dzs, old), new)
SwapDeadzone(dzs, old, new) == RC_REL(RC_ADD(dzs, new), old)

\* scc_gyroabs_set_deadzone_mod; the caller passes a deadzone that exists.
SetDeadzoneMod(a, d) ==
    /\ act[a].alive
    /\ act[a].type = KW_GYROABS
    /\ ~dz[d].freed
    /\ dz' = SwapDeadzone(dz, act[a].deadzone, d)
    /\ act' = [act EXCEPT ![a].deadzone = d]
    /\ calls' = << >>
    /\ last' = [NoLast EXCEPT !.op = "set_deadzone_mod", !.a = a]
    /\ UNCHANGED <<mflags, hist, build, devcall>>

\* Lines 70-75: gyro_dealloc releases the deadzone and frees the action.
gyro_dealloc(dzs, g) == RC_REL(dzs, g.deadzone)

\* RC_ADD(action) by one of its holders.
ActionAdd(a) ==
    /\ act[a].alive
    /\ act[a].rc < MaxRc
    /\ act' = [act EXCEPT ![a].rc = @ + 1]
    /\ calls' = << >>
    /\ last' = [NoLast EXCEPT !.op = "action_add", !.a = a]
    /\ UNCHANGED <<dz, mflags, hist, build, devcall>>

\* RC_REL(action) by one of its holders; the last one deallocates it.
ActionRel(a) ==
    /\ act[a].alive
    /\ IF act[a].rc - 1 < 1
       THEN /\ dz' = gyro_dealloc(dz, act[a])
            /\ act' = [act EXCEPT ![a] = NoAction]
       ELSE /\ act' = [act EXCEPT ![a].rc = @ - 1]
            /\ dz' = dz
    /\ calls' = << >>
    /\ last' = [NoLast EXCEPT !.op = "action_rel", !.a = a]
    /\ UNCHANGED <<mflags, hist, build, devcall>>

\* Number of live actions whose deadzone field points to d.
Referrers(d) == Cardinality({a \in Actions : act[a].alive /\ act[a].deadzone = d})

\* A deadzone modifier is created by an external holder (count 1).
DzNew(d) ==
    /\ dz[d].freed
    /\ Referrers(d) = 0
    /\ dz' = [dz EXCEPT ![d] = [rc |-> 1, freed |-> FALSE, ext |-> 1]]
    /\ calls' = << >>
    /\ last' = [NoLast EXCEPT !.op = "dz_new"]
    /\ UNCHANGED <<act, mflags, hist, build, devcall>>

\* An external holder duplicates its reference.
DzAdd(d) ==
    /\ ~dz[d].freed
    /\ dz[d].ext >= 1
    /\ dz[d].ext < MaxRc
    /\ dz' = [RC_ADD(dz, d) EXCEPT ![d].ext = @ + 1]
    /\ calls' = << >>
    /\ last' = [NoLast EXCEPT !.op = "dz_add"]
    /\ UNCHANGED <<act, mflags, hist, build, devcall>>

\* An external holder drops its reference.
DzRel(d) ==
    /\ ~dz[d].freed
    /\ dz[d].ext >= 1
    /\ dz' = [RC_REL(dz, d) EXCEPT ![d].ext = @ - 1]
    /\ calls' = << >>
    /\ last' = [NoLast EXCEPT !.op = "dz_rel"]
    /\ UNCHANGED <<act, mflags, hist, build, devcall>>

\* ------------------------------------------------- specification: one action
InitGyro ==
    /\ act = [a \in Actions |-> NoAction]
    /\ dz = [d \in Deadzones |->
                IF d = "d1" THEN [rc |-> 1, freed |-> FALSE, ext |-> 1] ELSE NoDeadzone]
    /\ mflags \in { {CF_EUREL_GYROS}, {} }
    /\ calls = << >>
    /\ last = NoLast
    /\ hist = [a \in Actions |-> NoHist]
    /\ build = {"USE_HIDAPI"}
    /\ devcall = NoDevCall

NextGyro ==
    \/ \E k \in {KW_GYRO, KW_GYROABS}, ax \in AxesConfigs : Construct("a1", k, ax)
    \/ \E s \in SensConfigs : SetSensitivity("a1", s[1], s[2], s[3])
    \/ \E h \in HapticDatas : SetHaptic("a1", h)
    \/ \E v \in GyroInputs : Gyro("a1", v)
    \/ \E v \in AbsInputs(mflags) : GyroAbs("a1", v)
    \/ SetDeadzoneMod("a1", "d1")
    \/ ActionRel("a1")

SpecGyro == InitGyro /\ [][NextGyro]_vars

\* ------------------------------------- specification: shared deadzones
InitRC ==
    /\ act = [a \in Actions |-> NoAction]
    /\ dz = [d \in Deadzones |-> NoDeadzone]
    /\ mflags = {}
    /\ calls = << >>
    /\ last = NoLast
    /\ hist = [a \in Actions |-> NoHist]
    /\ build = {"USE_HIDAPI"}
    /\ devcall = NoDevCall

NextRC ==
    \/ \E a \in Actions : Construct(a, KW_GYROABS, <<ABS_X, ABS_CNT, ABS_RX>>)
    \/ \E a \in Actions : ActionAdd(a)
    \/ \E a \in Actions : ActionRel(a)
    \/ \E a \in Actions, d \in Deadzones : SetDeadzoneMod(a, d)
    \/ \E d \in Deadzones : DzNew(d)
    \/ \E d \in Deadzones : DzAdd(d)
    \/ \E d \in Deadzones : DzRel(d)

SpecRC == InitRC /\ [][NextRC]_vars

\* --------------------------------------------- device monitor: operations
TestFilter(idev, filter) ==
    /\ \E clsid_ok \in BOOLEAN :
          devcall' = [op |-> "test_filter", dev |-> idev, filter |-> filter,
                      result |-> IF sccd_device_monitor_test_filter(build, idev, filter, clsid_ok)
                                 THEN "true" ELSE "false"]
    /\ UNCHANGED <<act, dz, mflags, calls, last, hist, build>>

Open(idev) ==
    /\ devcall' = [op |-> "open", dev |-> idev, filter |-> NoFilter,
                   result |-> input_device_open(build, idev)]
    /\ UNCHANGED <<act, dz, mflags, calls, last, hist, build>>

InitDev ==
    /\ act = [a \in Actions |-> NoAction]
    /\ dz = [d \in Deadzones |-> NoDeadzone]
    /\ mflags = {}
    /\ calls = << >>
    /\ last = NoLast
    /\ hist = [a \in Actions |-> NoHist]
    /\ build \in Builds
    /\ devcall = NoDevCall

NextDev ==
    \/ \E idev \in Devices, f \in Filters : TestFilter(idev, f)
    \/ \E idev \in Devices : Open(idev)

SpecDev == InitDev /\ [][NextDev]_vars

\* -------------------------------------------------------- whole program
Init == InitGyro

Next == NextGyro

Spec == SpecGyro

\* ------------------------------------------------------------------ claims
\* The Mapper calls of the latest operation, by kind.
CallsOf(op) == { k \in 1 .. Len(calls) : calls[k].op = op }
Fired == CallsOf("haptic_effect") # {}

\* The components of the set_axis calls of the latest operation, in call order.
WrittenComps ==
    LET w == SelectSeq(calls, LAMBDA c : c.op = "set_axis")
    IN  [k \in 1 .. Len(w) |-> w[k].comp]

InRelRange(axis) == axis >= REL_X /\ axis <= REL_MAX

\* C1: on the first gyroabs evaluation of a fresh action (ir all zero) every
\* component with a nonzero angle has its reference latched to that angle,
\* and every component's computed output is zero.
C1_FirstSampleNoJump ==
    (last.op = "gyroabs" /\ last.first) =>
        \A i \in Comps :
            /\ last.pyr[i] # 0 => act[last.a].ir[i] = last.pyr[i]
            /\ last.comp[i] = 0

\* C2: gyroabs makes no Mapper write for a component whose axis is unset
\* (ABS_CNT); writes go only to stick/trigger axes and to REL_X / REL_Y.
C2_UnsetAxisIgnored ==
    last.op = "gyroabs" =>
        \A k \in CallsOf("set_axis") \cup CallsOf("move_mouse") :
            /\ calls[k].axis # ABS_CNT
            /\ calls[k].axis <= ABS_MAX \/ calls[k].axis \in {REL_X, REL_Y}

\* C3: haptic_effect is called only by an evaluation that is out of range
\* while the preceding haptic-enabled evaluation, if any, was not; within one
\* contiguous run of saturated evaluations it is called at most once.
C3_HapticOnRisingEdgeOnly ==
    /\ (last.op = "gyroabs" /\ Fired) =>
          /\ last.haptic
          /\ last.oor
          /\ hist[last.a].prevOut # "out"
    /\ \A a \in Actions : hist[a].runFires <= 1

C3_Witness ==
    /\ last.op = "gyroabs"
    /\ Fired
    /\ last.oor
    /\ hist[last.a].prevOut = "none"

\* C4: a deadzone's count is its external holders plus the live actions
\* whose deadzone field points to it; it is not deallocated while a live
\* action points to it, and it is deallocated once nobody holds it.
C4_DeadzoneCountExact ==
    \A d \in Deadzones :
        /\ ~dz[d].freed => dz[d].rc = dz[d].ext + Referrers(d)
        /\ Referrers(d) > 0 => ~dz[d].freed
        /\ dz[d].freed => dz[d].rc = 0 /\ dz[d].ext = 0
        /\ (dz[d].ext = 0 /\ Referrers(d) = 0) => dz[d].freed

\* Two actions shared d1, its external holder is gone, one action was
\* released: the other still holds a live deadzone.
C4_Witness ==
    /\ last.op = "action_rel"
    /\ ~act["a1"].alive
    /\ act["a2"].alive
    /\ act["a2"].deadzone = "d1"
    /\ ~dz["d1"].freed
    /\ dz["d1"].ext = 0
    /\ dz["d1"].rc = 1

\* The backend whose open routine a record's subsystem names, when compiled in.
OpenOfSubsystem(b, subsystem) ==
    CASE subsystem = "HIDAPI" /\ "USE_HIDAPI" \in b -> "sccd_input_hidapi_open"
      [] subsystem = "USB" /\ "USE_LIBUSB" \in b -> "sccd_input_libusb_open"
      [] subsystem = "DINPUT" /\ "USE_DINPUT" \in b -> "sccd_input_dinput_open"
      [] OTHER -> NULL

\* C5: in every build, a record's open reaches the open routine of the
\* backend its subsystem names, and NULL when that backend is not compiled in.
C5_OpenDispatchesBySubsystem ==
    devcall.op = "open" => devcall.result = OpenOfSubsystem(build, devcall.dev.subsystem)

\* C6: test_filter's result by filter type: VENDOR and PRODUCT match only a
\* non-DINPUT device with the same id, IDX matches equal indices, NAME and
\* GUID are false for every non-DINPUT device and in builds without DINPUT,
\* any other type is false.
C6_TestFilterTable ==
    devcall.op = "test_filter" =>
        LET d == devcall.dev
            f == devcall.filter
            r == devcall.result
        IN  /\ r \in {"true", "false"}
            /\ f.type = "SCCD_HOTPLUG_FILTER_VENDOR" =>
                  (r = "true" <=> (d.subsystem # "DINPUT" /\ d.vendor = f.vendor))
            /\ f.type = "SCCD_HOTPLUG_FILTER_PRODUCT" =>
                  (r = "true" <=> (d.subsystem # "DINPUT" /\ d.product = f.product))
            /\ f.type = "SCCD_HOTPLUG_FILTER_IDX" => (r = "true" <=> d.idx = f.idx)
            /\ (/\ f.type \in {"SCCD_HOTPLUG_FILTER_NAME", "SCCD_HOTPLUG_FILTER_GUID"}
                /\ (d.subsystem # "DINPUT" \/ "USE_DINPUT" \notin build)) => r = "false"
            /\ f.type = "OTHER" => r = "false"

\* A vendor filter against a DINPUT record with that very vendor id.
C6_Witness ==
    /\ devcall.op = "test_filter"
    /\ devcall.filter.type = "SCCD_HOTPLUG_FILTER_VENDOR"
    /\ devcall.dev.subsystem = "DINPUT"
    /\ devcall.dev.vendor = devcall.filter.vendor
    /\ devcall.result = "false"

\* What every evaluation of 'gyro' keeps: values in range, no move_mouse, no
\* haptic_effect, the action unchanged.
GyroFrame ==
    /\ \A k \in CallsOf("set_axis") :
          /\ calls[k].x >= STICK_PAD_MIN
          /\ calls[k].x <= STICK_PAD_MAX
          /\ calls[k].axis = act[last.a].axes[calls[k].comp]
    /\ CallsOf("move_mouse") = {}
    /\ CallsOf("haptic_effect") = {}
    /\ act[last.a] = last.before

\* C7 (as stated): 'gyro' calls set_axis exactly once, in order, for each
\* component whose axis is not unset and for no other; unset axes and axes
\* of the mouse-relative range are never written; values in range; no
\* move_mouse, no haptic_effect; the action unchanged.
C7_SetAxisForEveryAxisNotUnset ==
    last.op = "gyro" =>
        /\ WrittenComps = SelectSeq(<<1, 2, 3>>, LAMBDA i : act[last.a].axes[i] # ABS_CNT)
        /\ \A k \in CallsOf("set_axis") :
              calls[k].axis # ABS_CNT /\ ~InRelRange(calls[k].axis)
        /\ GyroFrame

\* C7 (amended): 'gyro' calls set_axis exactly once, in order, for each
\* component whose axis is at most ABS_MAX and for no other; unset axes and
\* axes of the mouse-relative range are never written; values in range; no
\* move_mouse, no haptic_effect; the action unchanged.
C7_SetAxisForEveryAbsAxis ==
    last.op = "gyro" =>
        /\ WrittenComps = SelectSeq(<<1, 2, 3>>, LAMBDA i : act[last.a].axes[i] <= ABS_MAX)
        /\ \A k \in CallsOf("set_axis") :
              calls[k].axis # ABS_CNT /\ ~InRelRange(calls[k].axis)
        /\ GyroFrame

\* Pitch and roll written (one of them clamped), the unset yaw skipped.
C7_Witness ==
    /\ last.op = "gyro"
    /\ act[last.a].axes = <<ABS_X, ABS_CNT, ABS_RX>>
    /\ WrittenComps = <<1, 3>>
    /\ calls[1].x = STICK_PAD_MAX

\* C8: every optional operation whose handler the constructor installs has
\* its capability bit in the flags, and the deadzone capability is set for
\* 'gyroabs' only.
C8_FlagsDeclareInstalledHandlers ==
    \A a \in Actions :
        act[a].alive =>
            /\ "set_sensitivity" \in act[a].handlers => "AF_MOD_SENSITIVITY" \in act[a].flags
            /\ "set_haptic" \in act[a].handlers => "AF_MOD_FEEDBACK" \in act[a].flags
            /\ "AF_MOD_DEADZONE" \in act[a].flags <=> act[a].type = KW_GYROABS

\* C9: in gyroabs, with no deadzone attached, the value handed to set_axis
\* for a component is the component value of steps 2-4 (sensitivity applied
\* once), whatever the sensitivity.
C9_SetAxisGetsComponentValue ==
    (last.op = "gyroabs" /\ ~last.hadDeadzone) =>
        \A k \in CallsOf("set_axis") :
            calls[k].axis \notin {REL_X, REL_Y} =>
                calls[k].x = Trunc(last.comp[calls[k].comp], ValDen)

\* C10: over the life of one gyroabs action haptic_effect is called at most
\* once; after any haptic-enabled evaluation was_out_of_range is true; the
\* effect fires only on the first haptic-enabled evaluation, and only if it
\* is saturated.
C10_HapticAtMostOnceEver ==
    /\ \A a \in Actions :
          /\ hist[a].fires <= 1
          /\ (act[a].alive /\ hist[a].hapticEvals) => act[a].was_out_of_range
    /\ (last.op = "gyroabs" /\ Fired) =>
          /\ last.oor
          /\ hist[last.a].prevOut = "none"
          /\ hist[last.a].fires = 1

\* A second excursion: back in range, then saturated again, and no effect.
C10_Witness ==
    /\ last.op = "gyroabs"
    /\ last.haptic
    /\ last.oor
    /\ ~Fired
    /\ hist[last.a].prevOut = "in"
    /\ hist[last.a].fires = 0

====
